---- MODULE Spec2Model ----
(***************************************************************************)
(* Model of the Nodal decision core: NodalRouter (route cache and daily    *)
(* quota, routing_engine.py), NodalOptimizer (capacity-bound greedy        *)
(* selection, mileage, cost and profitability gate, optimizer.py) and      *)
(* NodalCore.execute_regional_analysis (core.py).                          *)
(*                                                                         *)
(* Units.  The source computes in binary floating point; the model uses    *)
(* exact integers in fixed units:                                          *)
(*   money      pence            (courier_cost_gbp, savings)               *)
(*   volume     litres, 1/1000 m3                                          *)
(*   weight     kg                                                         *)
(*   distance   1/100 mile       (distance_miles is round(..., 2))         *)
(*   duration   1/100 minute     (duration_min is round(..., 2))           *)
(*   fuel price pence per litre  (current_diesel_price)                    *)
(* A postcode is a sequence of one-character strings, so that upper() and  *)
(* strip() are computed and not assumed.                                   *)
(***************************************************************************)
EXTENDS Integers, Sequences, FiniteSets, TLC

VARIABLES
    route_cache,          \* NodalRouter.route_cache: pc_key -> route_info
    daily_request_count,  \* NodalRouter.daily_request_count
    backend_calls,        \* history: gmaps.distance_matrix calls issued
    answers,              \* history: pc_key -> what the latest call for it returned
    last,                 \* history: the latest get_route_data call
    raw_max_m3,           \* NodalOptimizer.raw_max_m3 (litres)
    van_capacity_kg,      \* NodalOptimizer.van_capacity_kg
    current_diesel_price, \* NodalOptimizer.current_diesel_price (pence)
    sel,                  \* history: the latest select_best_regional_orders
    all_data_cached,      \* NodalCore.all_data_cached (unset before the scan)
    manifest,             \* the rows standardize_columns() hands to the core
    run                   \* history: the latest execute_regional_analysis

vars == <<route_cache, daily_request_count, backend_calls, answers, last,
          raw_max_m3, van_capacity_kg, current_diesel_price, sel,
          all_data_cached, manifest, run>>

routerVars == <<route_cache, daily_request_count, backend_calls, answers, last>>
optimizerVars == <<raw_max_m3, van_capacity_kg, current_diesel_price, sel>>
coreVars == <<all_data_cached, manifest, run>>

\* Python's None, as a value comparable with the records it stands in for.
None == [none |-> TRUE]

(***************************************************************************)
(* Arithmetic helpers.                                                     *)
(***************************************************************************)
Max(a, b) == IF a >= b THEN a ELSE b

Min(a, b) == IF a <= b THEN a ELSE b

\* Exact a * b / c as [q |-> quotient, r |-> remainder], for a, b >= 0 and
\* c > 0, by doubling, so that no intermediate value leaves 32 bits.
RECURSIVE MulDiv(_, _, _)
MulDiv(a, b, c) ==
    IF b = 0 THEN [q |-> 0, r |-> 0]
    ELSE LET h == MulDiv(a, b \div 2, c)
             add == IF b % 2 = 1 THEN a ELSE 0
             rr == 2 * h.r + (add % c)
         IN  [q |-> 2 * h.q + (add \div c) + (rr \div c), r |-> rr % c]

\* round(a * b / c) to the nearest integer.  Python rounds exact halves to
\* even; the only products below that could be an exact half are named
\* where the operator is used.
RoundMulDiv(a, b, c) ==
    LET d == MulDiv(a, b, c)
    IN  IF 2 * d.r >= c THEN d.q + 1 ELSE d.q

(***************************************************************************)
(* Postcodes: str(x).upper().strip()                                       *)
(***************************************************************************)
ToUpper(ch) ==
    CASE ch = "n" -> "N"
      [] ch = "w" -> "W"
      [] ch = "b" -> "B"
      [] ch = "e" -> "E"
      [] OTHER -> ch

Upper(s) == [i \in 1..Len(s) |-> ToUpper(s[i])]

RECURSIVE LStrip(_)
LStrip(s) == IF s # <<>> /\ Head(s) = " " THEN LStrip(Tail(s)) ELSE s

RECURSIVE RStrip(_)
RStrip(s) ==
    IF s # <<>> /\ s[Len(s)] = " " THEN RStrip(SubSeq(s, 1, Len(s) - 1)) ELSE s

Strip(s) == LStrip(RStrip(s))

PcKey(pc) == Strip(Upper(pc))

StartsWith(s, p) == Len(s) >= Len(p) /\ SubSeq(s, 1, Len(p)) = p

(***************************************************************************)
(* NodalRouter                                                             *)
(***************************************************************************)
MAX_DAILY_LIMIT == 3000

\* A distance_matrix outcome: the call raises, or it returns a response
\* with a top-level status, an element status, a distance in metres, a
\* duration in seconds and, when in_traffic holds, a duration_in_traffic
\* in seconds.
Raises == [raises |-> TRUE]

\* A response that says OK twice and carries no 'distance' entry: reading
\* element['distance'] raises KeyError inside the try block.
Malformed == [raises |-> FALSE, status |-> "OK", element_status |-> "OK"]

Response(st, est, m, d, has, t) ==
    [raises |-> FALSE, status |-> st, element_status |-> est,
     distance_value |-> m, duration_value |-> d, in_traffic |-> has,
     duration_in_traffic |-> t]

\* round(dist_meters * 0.000621371, 2) in 1/100 mile.  An exact half needs
\* dist_meters = 5000000 (mod 10000000), beyond every distance used here.
DistanceMiles(dist_meters) == RoundMulDiv(dist_meters, 621371, 10000000)

\* round(duration_sec / 60, 2) in 1/100 minute; sec * 5 / 3 is never an
\* exact half.
DurationMin(duration_sec) == RoundMulDiv(duration_sec, 5, 3)

RouteInfo(resp) ==
    [distance_miles |-> DistanceMiles(resp.distance_value),
     duration_min |-> DurationMin(IF resp.in_traffic
                                  THEN resp.duration_in_traffic
                                  ELSE resp.duration_value)]

\* Variant: the limit test lets one call too many through.
QuotaReachedOffByOne(count) == count > MAX_DAILY_LIMIT

\* if self.daily_request_count >= self.MAX_DAILY_LIMIT
QuotaReached(count) == count >= MAX_DAILY_LIMIT

\* Variant: the entry is filed under the postcode as given.
StoreRouteRawKey(cache, pc, pc_key, route_info) ==
    [k \in DOMAIN cache \cup {pc} |-> IF k = pc THEN route_info ELSE cache[k]]

\* self.route_cache[pc_key] = route_info
StoreRoute(cache, pc, pc_key, route_info) ==
    [k \in DOMAIN cache \cup {pc_key} |->
        IF k = pc_key THEN route_info ELSE cache[k]]

\* Variant: the counter is advanced after the backend has answered, so a
\* call that raises is not counted.
get_route_data_counts_answers(cache, count, pc, resp) ==
    LET pc_key == PcKey(pc)
    IN  IF pc = <<>>
        THEN [cache |-> cache, count |-> count, ret |-> None, called |-> FALSE]
        ELSE IF pc_key \in DOMAIN cache
        THEN [cache |-> cache, count |-> count, ret |-> cache[pc_key],
              called |-> FALSE]
        ELSE IF QuotaReached(count)
        THEN [cache |-> cache, count |-> count, ret |-> None, called |-> FALSE]
        ELSE IF resp.raises
        THEN [cache |-> cache, count |-> count, ret |-> None, called |-> TRUE]
        ELSE IF resp.status = "OK" /\ resp.element_status = "OK"
                /\ "distance_value" \in DOMAIN resp
        THEN [cache |-> StoreRoute(cache, pc, pc_key, RouteInfo(resp)),
              count |-> count + 1, ret |-> RouteInfo(resp), called |-> TRUE]
        ELSE [cache |-> cache, count |-> count + 1, ret |-> None,
              called |-> TRUE]

\* Variant: the quota is tested before the cache is read.
get_route_data_quota_first(cache, count, pc, resp) ==
    LET pc_key == PcKey(pc)
    IN  IF pc = <<>>
        THEN [cache |-> cache, count |-> count, ret |-> None, called |-> FALSE]
        ELSE IF QuotaReached(count)
        THEN [cache |-> cache, count |-> count, ret |-> None, called |-> FALSE]
        ELSE IF pc_key \in DOMAIN cache
        THEN [cache |-> cache, count |-> count, ret |-> cache[pc_key],
              called |-> FALSE]
        ELSE IF resp.raises
        THEN [cache |-> cache, count |-> count + 1, ret |-> None,
              called |-> TRUE]
        ELSE IF resp.status = "OK" /\ resp.element_status = "OK"
                /\ "distance_value" \in DOMAIN resp
        THEN [cache |-> StoreRoute(cache, pc, pc_key, RouteInfo(resp)),
              count |-> count + 1, ret |-> RouteInfo(resp), called |-> TRUE]
        ELSE [cache |-> cache, count |-> count + 1, ret |-> None,
              called |-> TRUE]

\* One get_route_data call on a router in state (cache, count) whose
\* backend would answer resp: the new cache and counter, the value
\* returned and whether the backend was contacted.
get_route_data(cache, count, pc, resp) ==
    LET pc_key == PcKey(pc)
    IN  IF pc = <<>>
        THEN [cache |-> cache, count |-> count, ret |-> None, called |-> FALSE]
        ELSE IF pc_key \in DOMAIN cache
        THEN [cache |-> cache, count |-> count, ret |-> cache[pc_key],
              called |-> FALSE]
        ELSE IF QuotaReached(count)
        THEN [cache |-> cache, count |-> count, ret |-> None, called |-> FALSE]
        ELSE IF resp.raises
        THEN [cache |-> cache, count |-> count + 1, ret |-> None,
              called |-> TRUE]
        ELSE IF resp.status = "OK" /\ resp.element_status = "OK"
                /\ "distance_value" \in DOMAIN resp
        THEN [cache |-> StoreRoute(cache, pc, pc_key, RouteInfo(resp)),
              count |-> count + 1, ret |-> RouteInfo(resp), called |-> TRUE]
        ELSE [cache |-> cache, count |-> count + 1, ret |-> None,
              called |-> TRUE]

\* The history of answers after a call for pc returned ret.
Answered(ans, pc, ret) ==
    IF pc = <<>> THEN ans
    ELSE [k \in DOMAIN ans \cup {PcKey(pc)} |->
             IF k = PcKey(pc) THEN ret ELSE ans[k]]

\* Postcodes and backend outcomes the router is driven with.
RouterPostcodes ==
    { <<"N", "W", "1">>, <<" ", "n", "w", "1", " ">>, <<"B", "3">>, <<>> }

Responses ==
    { Raises,
      Response("OK", "OK", 128748, 6000, TRUE, 7230),
      Response("OK", "OK", 16093, 1500, FALSE, 0),
      Response("OK", "NOT_FOUND", 0, 0, FALSE, 0),
      Response("OVER_QUERY_LIMIT", "OK", 0, 0, FALSE, 0),
      Malformed }

\* The counter is followed for MaxCalls backend calls from a fresh router
\* and for the last MaxCalls calls before the limit.
MaxCalls == 3

InWindow(count) == count <= MaxCalls \/ count >= MAX_DAILY_LIMIT - MaxCalls

\* A router whose first MAX_DAILY_LIMIT - MaxCalls lookups, all for FailedPc,
\* were answered with an error: nothing cached, that many calls consumed.
FailedPc == <<"B", "3">>

PriorCalls == {0, MAX_DAILY_LIMIT - MaxCalls}

NoCall == [pc |-> <<>>, key |-> <<>>, ret |-> None, called |-> FALSE,
           before |-> 0]

GetRouteData(pc, resp) ==
    \E r \in { get_route_data(route_cache, daily_request_count, pc, resp) } :
        /\ InWindow(r.count)
        /\ route_cache' = r.cache
        /\ daily_request_count' = r.count
        /\ backend_calls' = backend_calls + (IF r.called THEN 1 ELSE 0)
        /\ answers' = Answered(answers, pc, r.ret)
        /\ last' = [pc |-> pc, key |-> PcKey(pc), ret |-> r.ret,
                    called |-> r.called, before |-> daily_request_count]
        /\ UNCHANGED <<optimizerVars, coreVars>>

RouterCall == \E pc \in RouterPostcodes, resp \in Responses : GetRouteData(pc, resp)

RouterInit ==
    /\ route_cache = << >>
    /\ \E c \in PriorCalls :
          /\ daily_request_count = c
          /\ backend_calls = c
          /\ answers = IF c = 0 THEN << >>
                       ELSE [k \in {PcKey(FailedPc)} |-> None]
          /\ last = IF c = 0 THEN NoCall
                    ELSE [pc |-> FailedPc, key |-> PcKey(FailedPc), ret |-> None,
                          called |-> TRUE, before |-> c - 1]

(***************************************************************************)
(* NodalOptimizer                                                          *)
(***************************************************************************)
UTILIZATION_RATIO == 80        \* per cent

DRIVER_DAILY_RATE == 140       \* pounds

VEHICLE_INSURANCE_DAILY == 15  \* pounds

MAINTENANCE_BUFFER == 10       \* pounds

LONDON_SURCHARGE == 15         \* pounds

SAFETY_MARGIN == 110           \* per cent

VAN_MPG == 30

LITRES_PER_GALLON == 4546      \* thousandths of a litre

\* self.van_capacity_m3 = self.raw_max_m3 * self.UTILIZATION_RATIO, for the
\* optimizer constructed with raw volume raw (litres, a multiple of 5).
VanCapacityM3(raw) == (raw * UTILIZATION_RATIO) \div 100

van_capacity_m3 == VanCapacityM3(raw_max_m3)

is_london(postcode) ==
    LET pc == PcKey(postcode)
    IN  \E prefix \in { <<"E", "C">>, <<"W", "C">>, <<"E", "1">>, <<"N", "1">>,
                        <<"N", "W", "1">>, <<"S", "E", "1">>, <<"S", "W", "1">>,
                        <<"W", "1">> } : StartsWith(pc, prefix)

\* round(dist_to_region * 2 + num_stops * 1.2, 2): the sum in 1/1000 mile,
\* rounded to 1/100 mile.  The distances the router hands on are whole
\* hundredths, so the sum is never an exact half.
calculate_human_route_miles(dist_to_region, num_stops) ==
    LET stem_miles == dist_to_region * 10 * 2
        drop_miles == num_stops * 1200
    IN  RoundMulDiv(stem_miles + drop_miles, 1, 10)

\* (fixed + total_miles * FUEL_COST_PER_MILE [+ LONDON_SURCHARGE]) *
\* SAFETY_MARGIN with FUEL_COST_PER_MILE = price * 4.546 / VAN_MPG, as the
\* exact amount whole + rem / (VAN_MPG * 10^7) pence.
calculate_van_cost(total_miles, has_london_stop, price) ==
    LET fixed == DRIVER_DAILY_RATE + VEHICLE_INSURANCE_DAILY + MAINTENANCE_BUFFER
        flat == IF has_london_stop THEN fixed + LONDON_SURCHARGE ELSE fixed
        fuel == MulDiv(total_miles * price, LITRES_PER_GALLON * SAFETY_MARGIN,
                       VAN_MPG * 10000000)
    IN  [whole |-> flat * SAFETY_MARGIN + fuel.q, rem |-> fuel.r]

\* cost > savings, savings in whole pence.
CostExceeds(cost, savings) ==
    cost.whole > savings \/ (cost.whole = savings /\ cost.rem > 0)

\* df.sort_values(by='courier_cost_gbp', ascending=False): the row positions
\* of df in descending cost.  The call leaves kind at its default,
\* 'quicksort', which pandas documents as not stable (numpy sorts runs of
\* at most 16 elements by insertion and partitions longer ones in place),
\* so rows of equal cost may come out in any order.
SortValues(df) ==
    { p \in [1..Len(df) -> 1..Len(df)] :
        /\ \A i, j \in 1..Len(df) : i # j => p[i] # p[j]
        /\ \A i, j \in 1..Len(df) :
              i < j => df[p[i]].courier_cost_gbp >= df[p[j]].courier_cost_gbp }

\* Variant: the weight is not tested.
FitsVolumeOnly(curr_vol, curr_kg, row, cap_m3, cap_kg) ==
    curr_vol + row.volume_m3 <= cap_m3

\* The admission test of the loop.
Fits(curr_vol, curr_kg, row, cap_m3, cap_kg) ==
    /\ curr_vol + row.volume_m3 <= cap_m3
    /\ curr_kg + row.weight_kg <= cap_kg

\* The loop over df_sorted from its k-th row with running totals curr_vol
\* and curr_kg: for each row visited, whether it was appended to
\* selected_orders and the totals after the iteration.
RECURSIVE AdmissionLoop(_, _, _, _, _, _, _)
AdmissionLoop(df, df_sorted, k, curr_vol, curr_kg, cap_m3, cap_kg) ==
    IF k > Len(df_sorted) THEN << >>
    ELSE LET row == df[df_sorted[k]]
             ok == Fits(curr_vol, curr_kg, row, cap_m3, cap_kg)
             vol == IF ok THEN curr_vol + row.volume_m3 ELSE curr_vol
             kg == IF ok THEN curr_kg + row.weight_kg ELSE curr_kg
         IN  << [index |-> df_sorted[k], admitted |-> ok,
                 curr_vol |-> vol, curr_kg |-> kg] >>
             \o AdmissionLoop(df, df_sorted, k + 1, vol, kg, cap_m3, cap_kg)

\* selected_orders: the rows appended, in the order of the loop.
RECURSIVE SelectedOrders(_)
SelectedOrders(steps) ==
    IF steps = << >> THEN << >>
    ELSE (IF Head(steps).admitted THEN << Head(steps).index >> ELSE << >>)
         \o SelectedOrders(Tail(steps))

\* Variant: the region is anchored to its first candidate, not its furthest.
DistToRegionOfFirst(df) == df[1].distance_miles

\* df['distance_miles'].max() over the frame handed to the selector.
RECURSIVE DistToRegion(_)
DistToRegion(df) ==
    IF Len(df) = 1 THEN df[1].distance_miles
    ELSE Max(df[1].distance_miles, DistToRegion(Tail(df)))

\* Variant: the courier cost of every candidate is counted as saved.
RECURSIVE SavingsOfAllCandidates(_, _)
SavingsOfAllCandidates(df, selected) ==
    IF df = << >> THEN 0
    ELSE Head(df).courier_cost_gbp + SavingsOfAllCandidates(Tail(df), selected)

\* result_df['courier_cost_gbp'].sum()
RECURSIVE Savings(_, _)
Savings(df, selected) ==
    IF selected = << >> THEN 0
    ELSE df[Head(selected)].courier_cost_gbp + Savings(df, Tail(selected))

\* any(self.is_london(pc) for pc in result_df['postcode'])
HasLondon(df, selected) ==
    \E i \in 1..Len(selected) : is_london(df[selected[i]].postcode)

EmptyFrame == << >>

\* select_best_regional_orders(df) on an optimizer with budget (cap_m3,
\* cap_kg) and diesel price price, df_sorted being the order sort_values
\* produced.  result is the frame returned; the other fields record the
\* locals of the call.
select_best_regional_orders(df, df_sorted, cap_m3, cap_kg, price) ==
    IF df = EmptyFrame
    THEN [ran |-> TRUE, df |-> df, df_sorted |-> << >>, steps |-> << >>,
          selected |-> << >>, computed |-> FALSE, total_route_miles |-> 0,
          savings |-> 0, has_london |-> FALSE, cost |-> [whole |-> 0, rem |-> 0],
          cap_m3 |-> cap_m3, cap_kg |-> cap_kg, price |-> price,
          result |-> EmptyFrame]
    ELSE
    LET steps == AdmissionLoop(df, df_sorted, 1, 0, 0, cap_m3, cap_kg)
        selected == SelectedOrders(steps)
        dist_to_region == DistToRegion(df)
        total_route_miles ==
            calculate_human_route_miles(dist_to_region, Len(selected))
        savings == Savings(df, selected)
        has_london == HasLondon(df, selected)
        cost == calculate_van_cost(total_route_miles, has_london, price)
        result_df == [i \in 1..Len(selected) |->
                        [row |-> df[selected[i]],
                         final_route_miles |-> total_route_miles]]
    IN  IF selected = << >>
        THEN [ran |-> TRUE, df |-> df, df_sorted |-> df_sorted, steps |-> steps,
              selected |-> selected, computed |-> FALSE, total_route_miles |-> 0,
              savings |-> 0, has_london |-> FALSE,
              cost |-> [whole |-> 0, rem |-> 0],
              cap_m3 |-> cap_m3, cap_kg |-> cap_kg, price |-> price,
              result |-> EmptyFrame]
        ELSE [ran |-> TRUE, df |-> df, df_sorted |-> df_sorted, steps |-> steps,
              selected |-> selected, computed |-> TRUE,
              total_route_miles |-> total_route_miles,
              savings |-> savings, has_london |-> has_london, cost |-> cost,
              cap_m3 |-> cap_m3, cap_kg |-> cap_kg, price |-> price,
              result |-> IF CostExceeds(cost, savings) THEN EmptyFrame
                         ELSE result_df]

NoSelection == [ran |-> FALSE]

\* The orders the selector is driven with.
Order(id, cost, pc, kg, vol, miles) ==
    [order_id |-> id, courier_cost_gbp |-> cost, postcode |-> pc,
     weight_kg |-> kg, volume_m3 |-> vol, distance_miles |-> miles]

RoutedOrders ==
    { Order("A", 5000, <<"N", "W", "1">>, 50, 1000, 8000),
      Order("B", 3000, <<"N", "W", "1">>, 50, 1000, 8000),
      Order("C", 25000, <<"B", "3">>, 1400, 400, 5094),
      Order("D", 25000, <<"N", "W", "9">>, 100, 100, 8200),
      Order("E", 90000, <<"B", "3">>, 200, 20000, 24940) }

MaxOrders == 3

Frames == UNION { [1..n -> RoutedOrders] : n \in 0..MaxOrders }

RawVolumes == { -1000, 0, 1875, 12000 }

PayloadRatings == { -1, 1500 }

DieselPrices == { 145, 300 }

\* The selector reads nothing an earlier call wrote, so one call per
\* behaviour, under every budget and price, stands for all of them.
SelectBestRegionalOrders(df) ==
    /\ sel = NoSelection
    /\ \E df_sorted \in SortValues(df) :
          sel' = select_best_regional_orders(df, df_sorted, van_capacity_m3,
                                             van_capacity_kg,
                                             current_diesel_price)
    /\ UNCHANGED <<routerVars, coreVars, raw_max_m3, van_capacity_kg,
                   current_diesel_price>>

\* main.py: the operator's diesel price replaces current_diesel_price and
\* calculate_fuel_per_mile() is run again.
SetDieselPrice(price) ==
    /\ current_diesel_price' = price
    /\ UNCHANGED <<routerVars, coreVars, raw_max_m3, van_capacity_kg, sel>>

\* NodalOptimizer(van_capacity_m3, van_capacity_kg): the constructor stores
\* its arguments as they come.
OptimizerInit(raw, kg) ==
    /\ raw_max_m3 = raw
    /\ van_capacity_kg = kg
    /\ current_diesel_price = 145
    /\ sel = NoSelection

NoRun == [ran |-> FALSE]

CoreIdle ==
    /\ all_data_cached = [is_none |-> TRUE, rows |-> << >>]
    /\ manifest = << >>
    /\ run = NoRun

RouterIdle ==
    /\ route_cache = << >>
    /\ daily_request_count = 0
    /\ backend_calls = 0
    /\ answers = << >>
    /\ last = NoCall

(***************************************************************************)
(* NodalCore                                                               *)
(***************************************************************************)
DAILY_POOL_LIMIT == 400

UpperLetters == { "N", "W", "B", "E", "S", "C" }

\* The NaN a region_code is when the pattern does not match; it equals no
\* region prefix.
NaN == << "nan" >>

\* postcode.str.extract(r'^([A-Z]{1,2})') on the postcode as it stands in
\* the manifest: its leading one or two capital letters, else NaN.
RegionCode(pc) ==
    IF pc = << >> \/ Head(pc) \notin UpperLetters THEN NaN
    ELSE IF Len(pc) >= 2 /\ pc[2] \in UpperLetters THEN SubSeq(pc, 1, 2)
    ELSE SubSeq(pc, 1, 1)

\* get_top_regions: df.head(DAILY_POOL_LIMIT) with its region_code column.
Scan(rows) ==
    LET pool == SubSeq(rows, 1, Min(Len(rows), DAILY_POOL_LIMIT))
    IN  [i \in 1..Len(pool) |->
            [order_id |-> pool[i].order_id,
             courier_cost_gbp |-> pool[i].courier_cost_gbp,
             postcode |-> pool[i].postcode,
             weight_kg |-> pool[i].weight_kg,
             volume_m3 |-> pool[i].volume_m3,
             region_code |-> RegionCode(pool[i].postcode)]]

\* self.all_data_cached: None until the scan has run, then its frame.
Unset == [is_none |-> TRUE, rows |-> << >>]

Frame(rows) == [is_none |-> FALSE, rows |-> rows]

GetTopRegions ==
    /\ all_data_cached' = Frame(Scan(manifest))
    /\ UNCHANGED <<routerVars, optimizerVars, manifest, run>>

\* regional_df['postcode'].unique(): the postcodes of the rows from the
\* k-th on that are not in seen, in order of first appearance.
RECURSIVE Unique(_, _, _)
Unique(rows, k, seen) ==
    IF k > Len(rows) THEN << >>
    ELSE IF rows[k].postcode \in seen THEN Unique(rows, k + 1, seen)
    ELSE << rows[k].postcode >>
         \o Unique(rows, k + 1, seen \cup {rows[k].postcode})

\* for pc in unique_pcs: data = self.router.get_route_data(pc), from the
\* k-th postcode on, responses[k] being the backend's answer if asked.
\* Yields the router state after the loop and one entry per postcode.
RECURSIVE LookupLoop(_, _, _, _, _)
LookupLoop(unique_pcs, responses, k, cache, count) ==
    IF k > Len(unique_pcs)
    THEN [cache |-> cache, count |-> count, lookups |-> << >>]
    ELSE LET r == get_route_data(cache, count, unique_pcs[k], responses[k])
             rest == LookupLoop(unique_pcs, responses, k + 1, r.cache, r.count)
         IN  [cache |-> rest.cache, count |-> rest.count,
              lookups |-> << [pc |-> unique_pcs[k], ret |-> r.ret,
                              called |-> r.called, before |-> count] >>
                          \o rest.lookups]

\* dist_map / dur_map: the entry of lookups for postcode pc with data, if any.
Routed(lookups, pc) ==
    \E k \in 1..Len(lookups) : lookups[k].pc = pc /\ lookups[k].ret # None

RouteOf(lookups, pc) ==
    lookups[CHOOSE k \in 1..Len(lookups) :
                lookups[k].pc = pc /\ lookups[k].ret # None].ret

\* Variant: rows without route data are kept, at distance 0.
RECURSIVE DfReadyKeepsUnrouted(_, _)
DfReadyKeepsUnrouted(rows, lookups) ==
    IF rows = << >> THEN << >>
    ELSE LET row == Head(rows)
             known == Routed(lookups, row.postcode)
         IN  << [order_id |-> row.order_id,
                 courier_cost_gbp |-> row.courier_cost_gbp,
                 postcode |-> row.postcode,
                 weight_kg |-> row.weight_kg,
                 volume_m3 |-> row.volume_m3,
                 region_code |-> row.region_code,
                 distance_miles |->
                     IF known THEN RouteOf(lookups, row.postcode).distance_miles
                     ELSE 0,
                 duration_min |->
                     IF known THEN RouteOf(lookups, row.postcode).duration_min
                     ELSE 0] >>
             \o DfReadyKeepsUnrouted(Tail(rows), lookups)

\* regional_df with its distance and duration columns, after
\* dropna(subset=['distance_miles']).
RECURSIVE DfReady(_, _)
DfReady(rows, lookups) ==
    IF rows = << >> THEN << >>
    ELSE LET row == Head(rows)
         IN  (IF Routed(lookups, row.postcode)
              THEN << [order_id |-> row.order_id,
                       courier_cost_gbp |-> row.courier_cost_gbp,
                       postcode |-> row.postcode,
                       weight_kg |-> row.weight_kg,
                       volume_m3 |-> row.volume_m3,
                       region_code |-> row.region_code,
                       distance_miles |->
                           RouteOf(lookups, row.postcode).distance_miles,
                       duration_min |->
                           RouteOf(lookups, row.postcode).duration_min] >>
              ELSE << >>)
             \o DfReady(Tail(rows), lookups)

RECURSIVE CountCalled(_)
CountCalled(lookups) ==
    IF lookups = << >> THEN 0
    ELSE (IF Head(lookups).called THEN 1 ELSE 0) + CountCalled(Tail(lookups))

RECURSIVE AnsweredAll(_, _)
AnsweredAll(ans, lookups) ==
    IF lookups = << >> THEN ans
    ELSE AnsweredAll(Answered(ans, Head(lookups).pc, Head(lookups).ret),
                     Tail(lookups))

\* The manifests, regions, limits and backend answers the core is driven with.
ManifestRow(id, cost, pc, kg, vol) ==
    [order_id |-> id, courier_cost_gbp |-> cost, postcode |-> pc,
     weight_kg |-> kg, volume_m3 |-> vol]

PoolOrders ==
    { ManifestRow("A", 25000, <<"N", "W", "1">>, 100, 500),
      ManifestRow("B", 25000, <<"N", "W", "1", " ">>, 100, 500),
      ManifestRow("C", 3000, <<"N", "W", "9">>, 1450, 300) }

MaxPool == 2

\* Manifests of at most MaxPool rows; an order_id occurs once in a pool.
Manifests ==
    { m \in UNION { [1..n -> PoolOrders] : n \in 0..MaxPool } :
        \A i, j \in 1..Len(m) : i # j => m[i].order_id # m[j].order_id }

Regions == { <<"N", "W">>, <<"B">> }

CoreResponses ==
    { Raises,
      Response("OK", "OK", 128748, 6000, TRUE, 7230),
      Response("OK", "NOT_FOUND", 0, 0, FALSE, 0) }

ApiLimits == { 1, 150 }

\* The rows of the pool in the region, and the postcodes looked up.
RegionalDf(pool, region_prefix) ==
    SelectSeq(pool, LAMBDA row : row.region_code = region_prefix)

UniquePcs(regional_df, api_limit) ==
    LET all_pcs == Unique(regional_df, 1, {})
    IN  SubSeq(all_pcs, 1, Min(Len(all_pcs), api_limit))

RunRecord(region_prefix, api_limit, regional_df, lookups, df_ready, selected, returned, result) ==
    [ran |-> TRUE, region |-> region_prefix, api_limit |-> api_limit,
     regional_df |-> regional_df,
     lookups |-> lookups, df_ready |-> df_ready, selected |-> selected,
     returned |-> returned, result |-> result, pool_size |-> DAILY_POOL_LIMIT]

\* Variant: the postcodes of the whole pool are routed before the rows of
\* the region are looked at (a lookup without an answer finds the backend
\* down).
execute_regional_analysis_routes_pool(pool, cache, count, cap_m3, cap_kg, price, region_prefix, api_limit, responses) ==
    LET regional_df == RegionalDf(pool, region_prefix)
        unique_pcs == UniquePcs(pool, api_limit)
        answers_given == [k \in 1..Len(unique_pcs) |->
                            IF k \in DOMAIN responses THEN responses[k]
                            ELSE Raises]
        loop == LookupLoop(unique_pcs, answers_given, 1, cache, count)
        df_ready == DfReady(regional_df, loop.lookups)
    IN  IF regional_df = << >>
        THEN { [cache |-> loop.cache, count |-> loop.count,
                selection |-> NoSelection,
                run |-> RunRecord(region_prefix, api_limit, regional_df,
                                  loop.lookups, << >>, FALSE, "None",
                                  EmptyFrame)] }
        ELSE IF df_ready = << >>
        THEN { [cache |-> loop.cache, count |-> loop.count,
                selection |-> NoSelection,
                run |-> RunRecord(region_prefix, api_limit, regional_df,
                                  loop.lookups, df_ready, FALSE, "frame",
                                  EmptyFrame)] }
        ELSE { [cache |-> loop.cache, count |-> loop.count,
                selection |-> s,
                run |-> RunRecord(region_prefix, api_limit, regional_df,
                                  loop.lookups, df_ready, TRUE, "frame",
                                  s.result)] :
               s \in { select_best_regional_orders(df_ready, df_sorted, cap_m3,
                                                   cap_kg, price) :
                       df_sorted \in SortValues(df_ready) } }

\* execute_regional_analysis(region_prefix, api_limit) on the pool, with a
\* router in state (cache, count) and an optimizer with budget (cap_m3,
\* cap_kg) and diesel price price; responses are the answers the backend
\* would give to the lookups of this run, in order.  Yields the outcomes
\* the call can have (one for each order sort_values may produce): the
\* router state after it, the value returned and the selector call made.
execute_regional_analysis(pool, cache, count, cap_m3, cap_kg, price, region_prefix, api_limit, responses) ==
    LET regional_df == RegionalDf(pool, region_prefix)
        unique_pcs == UniquePcs(regional_df, api_limit)
        loop == LookupLoop(unique_pcs, responses, 1, cache, count)
        df_ready == DfReady(regional_df, loop.lookups)
    IN  IF regional_df = << >>
        THEN { [cache |-> cache, count |-> count, selection |-> NoSelection,
                run |-> RunRecord(region_prefix, api_limit, regional_df, << >>, << >>,
                                  FALSE, "None", EmptyFrame)] }
        ELSE IF df_ready = << >>
        THEN { [cache |-> loop.cache, count |-> loop.count,
                selection |-> NoSelection,
                run |-> RunRecord(region_prefix, api_limit, regional_df, loop.lookups,
                                  df_ready, FALSE, "frame", EmptyFrame)] }
        ELSE { [cache |-> loop.cache, count |-> loop.count,
                selection |-> s,
                run |-> RunRecord(region_prefix, api_limit, regional_df, loop.lookups,
                                  df_ready, TRUE, "frame", s.result)] :
               s \in { select_best_regional_orders(df_ready, df_sorted, cap_m3,
                                                   cap_kg, price) :
                       df_sorted \in SortValues(df_ready) } }

\* The scan is run first if it has not been (its file is taken to load).
Pool == IF all_data_cached.is_none THEN Scan(manifest) ELSE all_data_cached.rows

ExecuteRegionalAnalysis(region_prefix, api_limit) ==
    \E responses \in
         [1..Len(UniquePcs(RegionalDf(Pool, region_prefix), api_limit))
             -> CoreResponses] :
      \E out \in execute_regional_analysis(
                     Pool, route_cache, daily_request_count, van_capacity_m3,
                     van_capacity_kg, current_diesel_price, region_prefix,
                     api_limit, responses) :
        /\ InWindow(out.count)
        /\ all_data_cached' = Frame(Pool)
        /\ route_cache' = out.cache
        /\ daily_request_count' = out.count
        /\ backend_calls' = backend_calls + CountCalled(out.run.lookups)
        /\ answers' = AnsweredAll(answers, out.run.lookups)
        /\ last' = IF out.run.lookups = << >> THEN last
                   ELSE LET l == out.run.lookups[Len(out.run.lookups)]
                        IN  [pc |-> l.pc, key |-> PcKey(l.pc), ret |-> l.ret,
                             called |-> l.called, before |-> l.before]
        /\ sel' = IF out.run.selected THEN out.selection ELSE sel
        /\ run' = out.run
        /\ UNCHANGED <<manifest, raw_max_m3, van_capacity_kg,
                       current_diesel_price>>

CoreInit ==
    /\ all_data_cached = Unset
    /\ manifest \in Manifests
    /\ run = NoRun

InitRouter == RouterInit /\ OptimizerInit(12000, 1500) /\ CoreIdle

NextRouter == RouterCall

SpecRouter == InitRouter /\ [][NextRouter]_vars

InitOptimizer ==
    /\ RouterIdle
    /\ \E raw \in RawVolumes, kg \in PayloadRatings : OptimizerInit(raw, kg)
    /\ CoreIdle

NextOptimizer ==
    \/ \E df \in Frames : SelectBestRegionalOrders(df)
    \/ \E price \in DieselPrices : SetDieselPrice(price)

SpecOptimizer == InitOptimizer /\ [][NextOptimizer]_vars

\* NodalCore(api_key, file_path): NodalOptimizer() with its default budget,
\* a router of its own and the manifest of file_path.
Init == RouterInit /\ OptimizerInit(12000, 1500) /\ CoreInit

\* The core's scan and regional run, and its optimizer handed an empty
\* frame directly (the run itself never hands it one).
Next ==
    \/ GetTopRegions
    \/ SelectBestRegionalOrders(EmptyFrame)
    \/ \E region_prefix \in Regions, api_limit \in ApiLimits :
            ExecuteRegionalAnalysis(region_prefix, api_limit)

Spec == Init /\ [][Next]_vars

(***************************************************************************)
(* Properties.  Totals are recomputed here from the rows themselves.       *)
(***************************************************************************)
RECURSIVE TotalOf(_, _, _)
TotalOf(df, indices, field) ==
    IF indices = << >> THEN 0
    ELSE (CASE field = "volume_m3" -> df[Head(indices)].volume_m3
            [] field = "weight_kg" -> df[Head(indices)].weight_kg
            [] field = "courier_cost_gbp" -> df[Head(indices)].courier_cost_gbp)
         + TotalOf(df, Tail(indices), field)

\* The row positions admitted in the first k iterations of the loop.
AdmittedUpTo(k) ==
    LET ks == { j \in 1..k : sel.steps[j].admitted }
        Pick[n \in 0..k] ==
            IF n = 0 THEN << >>
            ELSE IF n \in ks THEN Append(Pick[n - 1], sel.steps[n].index)
            ELSE Pick[n - 1]
    IN  Pick[k]

\* The row positions of sel.df behind the rows of the frame returned.
Returned == IF sel.result = EmptyFrame THEN << >> ELSE sel.selected

\* C1: the volumes (weights) of the orders returned sum to at most
\* van_capacity_m3 (van_capacity_kg), and so do the running totals after
\* every iteration of the admission loop.
CapacityRespected ==
    sel.ran =>
        /\ TotalOf(sel.df, Returned, "volume_m3") <= sel.cap_m3
        /\ TotalOf(sel.df, Returned, "weight_kg") <= sel.cap_kg
        /\ \A k \in 1..Len(sel.steps) :
              /\ sel.steps[k].curr_vol <= sel.cap_m3
              /\ sel.steps[k].curr_kg <= sel.cap_kg
              /\ TotalOf(sel.df, AdmittedUpTo(k), "volume_m3") <= sel.cap_m3
              /\ TotalOf(sel.df, AdmittedUpTo(k), "weight_kg") <= sel.cap_kg

\* The van cost of the orders admitted, by calculate_van_cost over the
\* route miles of the call and the London flag of the admitted orders only.
AdmittedCost ==
    calculate_van_cost(
        sel.total_route_miles,
        \E i \in 1..Len(sel.selected) : is_london(sel.df[sel.selected[i]].postcode),
        sel.price)

AdmittedSavings == TotalOf(sel.df, AdmittedUpTo(Len(sel.steps)), "courier_cost_gbp")

\* C2: the frame returned is non-empty only if the van cost of the admitted
\* orders is at most their courier cost; when the cost is greater nothing
\* is returned, though capacity admitted orders; a frame that is returned
\* holds all the admitted orders.
ProfitabilityGateExact ==
    (sel.ran /\ sel.selected # << >>) =>
        /\ sel.selected = AdmittedUpTo(Len(sel.steps))
        /\ sel.result # EmptyFrame => ~CostExceeds(AdmittedCost, AdmittedSavings)
        /\ CostExceeds(AdmittedCost, AdmittedSavings) => sel.result = EmptyFrame
        /\ sel.result # EmptyFrame =>
              /\ Len(sel.result) = Len(sel.selected)
              /\ \A i \in 1..Len(sel.result) :
                    sel.result[i].row = sel.df[sel.selected[i]]

GateRejectsAdmitted ==
    /\ sel.ran
    /\ sel.selected # << >>
    /\ CostExceeds(AdmittedCost, AdmittedSavings)
    /\ sel.result = EmptyFrame

\* C3: the backend calls issued are daily_request_count of them, never more
\* than MAX_DAILY_LIMIT.
QuotaBound ==
    /\ backend_calls = daily_request_count
    /\ daily_request_count <= MAX_DAILY_LIMIT

QuotaUsedUp ==
    /\ daily_request_count = MAX_DAILY_LIMIT
    /\ last.called
    /\ last.before = MAX_DAILY_LIMIT - 1

\* C4, as claimed: with the quota used up, a call returns None for a
\* postcode never asked for, without a backend call or a change of the
\* counter, and the cached RouteData for a postcode asked for before.
ExhaustedServesEverySeen ==
    [][daily_request_count >= MAX_DAILY_LIMIT =>
          /\ daily_request_count' = daily_request_count
          /\ backend_calls' = backend_calls
          /\ ~last'.called
          /\ last'.key \notin DOMAIN answers => last'.ret = None
          /\ last'.key \in DOMAIN answers =>
                /\ last'.key \in DOMAIN route_cache
                /\ last'.ret = route_cache[last'.key]]_vars

\* C4, amended: with the quota used up, a call contacts no backend and
\* changes neither counter nor cache; it returns the cached RouteData for a
\* postcode that has one and None for every other postcode, whether never
\* asked for or asked for only in lookups that failed.
ExhaustedServesCache ==
    [][daily_request_count >= MAX_DAILY_LIMIT =>
          /\ daily_request_count' = daily_request_count
          /\ backend_calls' = backend_calls
          /\ route_cache' = route_cache
          /\ ~last'.called
          /\ IF last'.pc # << >> /\ last'.key \in DOMAIN route_cache
             THEN last'.ret = route_cache[last'.key]
             ELSE last'.ret = None]_vars

CachedAfterExhaustion ==
    /\ daily_request_count = MAX_DAILY_LIMIT
    /\ last.before = MAX_DAILY_LIMIT
    /\ ~last.called
    /\ last.ret # None

\* C5, as claimed: a call for a postcode asked for before (compared by its
\* normalized form) returns what the earlier call returned and consumes no
\* further quota.
SecondCallFree ==
    [][(last'.pc # << >> /\ last'.key \in DOMAIN answers) =>
          /\ last'.ret = answers[last'.key]
          /\ ~last'.called
          /\ backend_calls' = backend_calls
          /\ daily_request_count' = daily_request_count]_vars

\* C5, amended: once a call has returned RouteData for a postcode, every
\* later call for the same normalized postcode returns that RouteData,
\* makes no backend call and leaves the counter unchanged.
ResolvedCallFree ==
    [][(/\ last'.pc # << >>
        /\ last'.key \in DOMAIN answers
        /\ answers[last'.key] # None) =>
          /\ last'.ret = answers[last'.key]
          /\ ~last'.called
          /\ backend_calls' = backend_calls
          /\ daily_request_count' = daily_request_count]_vars

NormalizedCacheHit ==
    /\ last.pc # last.key
    /\ last.ret # None
    /\ ~last.called
    /\ last.key \in DOMAIN route_cache
    /\ daily_request_count < MAX_DAILY_LIMIT

\* C6: candidates are taken in descending courier_cost and, among equal
\* costs, in input order.
TiesKeepInputOrder ==
    sel.ran =>
        \A i, j \in 1..Len(sel.df_sorted) :
            i < j =>
              LET a == sel.df[sel.df_sorted[i]].courier_cost_gbp
                  b == sel.df[sel.df_sorted[j]].courier_cost_gbp
              IN  a > b \/ (a = b /\ sel.df_sorted[i] < sel.df_sorted[j])

\* C7: every postcode of the region (up to api_limit) is looked up, whatever
\* the lookups before it returned; the rows handed to the selector are the
\* rows of the region whose own postcode lookup returned RouteData; every
\* order returned has such a postcode.
HasRouteData(pc) ==
    \E k \in 1..Len(run.lookups) :
        run.lookups[k].pc = pc /\ run.lookups[k].ret # None

AbsentLookupDropsOrder ==
    (run.ran /\ run.regional_df # << >>) =>
        /\ run.lookups # << >>
        /\ \A k \in 1..Len(run.lookups) :
              \E i \in 1..Len(run.regional_df) :
                  run.regional_df[i].postcode = run.lookups[k].pc
        /\ \A k, n \in 1..Len(run.lookups) :
              k # n => run.lookups[k].pc # run.lookups[n].pc
        /\ Len(run.lookups) =
              Min(Cardinality({ run.regional_df[i].postcode :
                                  i \in 1..Len(run.regional_df) }),
                  run.api_limit)
        /\ \A i \in 1..Len(run.df_ready) : HasRouteData(run.df_ready[i].postcode)
        /\ \A i \in 1..Len(run.regional_df) :
              HasRouteData(run.regional_df[i].postcode) =>
                  \E j \in 1..Len(run.df_ready) :
                      run.df_ready[j].order_id = run.regional_df[i].order_id
        /\ \A i \in 1..Len(run.result) : HasRouteData(run.result[i].row.postcode)
        /\ run.returned = "frame"

ContinuesAfterAbsent ==
    /\ run.ran
    /\ run.result # EmptyFrame
    /\ \E k, n \in 1..Len(run.lookups) :
          /\ k < n
          /\ run.lookups[k].ret = None
          /\ run.lookups[k].called
          /\ run.lookups[n].ret # None
    /\ Len(run.result) < Len(run.regional_df)

\* C8: a run on a region with no candidate orders returns nothing and
\* leaves counter, cache and backend untouched; the selector handed an
\* empty frame returns an empty frame without computing miles or cost.
EmptyRegionNoCalls ==
    [][/\ (run'.ran /\ run'.regional_df = << >>) =>
             /\ run'.result = EmptyFrame
             /\ run'.returned = "None"
             /\ run'.lookups = << >>
             /\ daily_request_count' = daily_request_count
             /\ backend_calls' = backend_calls
             /\ route_cache' = route_cache
       /\ (sel'.ran /\ sel'.df = EmptyFrame) =>
             /\ sel'.result = EmptyFrame
             /\ ~sel'.computed
             /\ sel'.steps = << >>]_vars

EmptyRegionRun ==
    /\ run.ran
    /\ run.regional_df = << >>
    /\ manifest # << >>
    /\ sel.ran
    /\ sel.df = EmptyFrame

\* C9: no selection runs on an optimizer whose volume or weight capacity is
\* negative (construction with such a capacity fails).
NegativeCapacityRejected ==
    sel.ran => (raw_max_m3 >= 0 /\ van_capacity_kg >= 0 /\ sel.cap_m3 >= 0
                /\ sel.cap_kg >= 0)

\* C10: the loop visits every candidate once, in sorted order; a candidate
\* is admitted exactly when the volume and the weight of the candidates
\* admitted before it, plus its own, are within the budget; what has been
\* admitted stays admitted; a candidate larger or heavier than the budget
\* is not admitted; of (cost 50, vol 1, wt 50) and (cost 30, vol 1, wt 50)
\* under a budget of vol 1.5 and wt 1500 only the first is admitted.
ExampleFrame ==
    << Order("A", 5000, <<"N", "W", "1">>, 50, 1000, 8000),
       Order("B", 3000, <<"N", "W", "1">>, 50, 1000, 8000) >>

GreedySinglePass ==
    (sel.ran /\ sel.df # EmptyFrame) =>
        /\ Len(sel.steps) = Len(sel.df)
        /\ \A k \in 1..Len(sel.steps) :
              LET row == sel.df[sel.df_sorted[k]]
                  vol == TotalOf(sel.df, AdmittedUpTo(k - 1), "volume_m3")
                  kg == TotalOf(sel.df, AdmittedUpTo(k - 1), "weight_kg")
              IN  /\ sel.steps[k].index = sel.df_sorted[k]
                  /\ sel.steps[k].admitted <=>
                        (vol + row.volume_m3 <= sel.cap_m3
                         /\ kg + row.weight_kg <= sel.cap_kg)
                  /\ (row.volume_m3 > sel.cap_m3 \/ row.weight_kg > sel.cap_kg)
                        => ~sel.steps[k].admitted
        /\ sel.selected = AdmittedUpTo(Len(sel.steps))
        /\ (sel.df = ExampleFrame /\ sel.cap_m3 = 1500 /\ sel.cap_kg = 1500)
              => sel.selected = << 1 >>

AdmitsAfterSkip ==
    /\ sel.ran
    /\ \E k, n \in 1..Len(sel.steps) :
          /\ k < n
          /\ ~sel.steps[k].admitted
          /\ sel.steps[n].admitted
          /\ sel.df[sel.steps[k].index].weight_kg <= sel.cap_kg
          /\ sel.df[sel.steps[k].index].volume_m3 <= sel.cap_m3

\* C11: when at least one order is admitted, total_route_miles is twice the
\* anchor distance plus 1.2 miles per admitted order, the anchor distance
\* being the largest distance_miles among all candidates handed to the
\* selector, skipped ones included; every order returned carries that one
\* value as final_route_miles.
AnchorDistance ==
    CHOOSE a \in { sel.df[i].distance_miles : i \in 1..Len(sel.df) } :
        \A i \in 1..Len(sel.df) : sel.df[i].distance_miles <= a

RouteMilesFromFullCandidateSet ==
    (sel.ran /\ sel.selected # << >>) =>
        /\ sel.computed
        /\ sel.total_route_miles = 2 * AnchorDistance + 120 * Len(sel.selected)
        /\ \A i \in 1..Len(sel.result) :
              /\ sel.result[i].final_route_miles = sel.total_route_miles
              /\ sel.result[i].row = sel.df[sel.selected[i]]

\* Orders are returned although the furthest candidate was skipped.
AnchoredToSkippedCandidate ==
    /\ sel.ran
    /\ sel.result # EmptyFrame
    /\ \E k \in 1..Len(sel.steps) :
          /\ ~sel.steps[k].admitted
          /\ \A i \in 1..Len(sel.selected) :
                sel.df[sel.selected[i]].distance_miles
                    < sel.df[sel.steps[k].index].distance_miles

\* C12: a call that contacts the backend and gets an exception, a status
\* or element status other than OK, or a malformed response adds exactly
\* one to daily_request_count, returns None and leaves route_cache as it
\* was; a call for a postcode whose latest answer was None contacts the
\* backend, adding one to the counter again, exactly when the limit is not
\* yet reached; no call makes the counter smaller.
Fails(resp) ==
    \/ resp.raises
    \/ resp.status # "OK"
    \/ resp.element_status # "OK"
    \/ "distance_value" \notin DOMAIN resp

ReachesBackend(pc) ==
    /\ pc # << >>
    /\ PcKey(pc) \notin DOMAIN route_cache
    /\ daily_request_count < MAX_DAILY_LIMIT

FailedCallCountsAndRetries ==
    [][\A pc \in RouterPostcodes, resp \in Responses :
          GetRouteData(pc, resp) =>
            /\ daily_request_count' >= daily_request_count
            /\ (ReachesBackend(pc) /\ Fails(resp)) =>
                  /\ last'.called
                  /\ backend_calls' = backend_calls + 1
                  /\ daily_request_count' = daily_request_count + 1
                  /\ last'.ret = None
                  /\ route_cache' = route_cache
            /\ (/\ pc # << >>
                /\ PcKey(pc) \in DOMAIN answers
                /\ answers[PcKey(pc)] = None) =>
                  /\ last'.called <=> daily_request_count < MAX_DAILY_LIMIT
                  /\ last'.called =>
                        /\ backend_calls' = backend_calls + 1
                        /\ daily_request_count' = daily_request_count + 1
                  /\ ~last'.called =>
                        /\ last'.ret = None
                        /\ daily_request_count' = daily_request_count]_vars

\* The only postcode asked for was looked up twice at the backend and
\* failed both times.
RetriedAfterFailure ==
    /\ backend_calls = 2
    /\ daily_request_count = 2
    /\ last.called
    /\ last.ret = None
    /\ last.before = 1
    /\ DOMAIN answers = { last.key }
    /\ route_cache = << >>

====
